---- MODULE Spec2Model ----
(***************************************************************************)
(* money4band: the capability detector (utils/detect.py) and the stack     *)
(* launcher (utils/fn_startStack.py).                                      *)
(*                                                                         *)
(* Spec       : the launcher, entered at the command line, at main, at     *)
(*              start_multi_proxy_instances or at start_stack, one step    *)
(*              per action, with every outcome of the prompt, of the       *)
(*              compose command and of the dashboard generation.           *)
(* SpecDetect : detect_os / detect_architecture applied to every bounded   *)
(*              configuration document and host string.                    *)
(***************************************************************************)
EXTENDS Integers, Sequences, FiniteSets, TLC

\* ------------------------------------------------------------------ bounds
\* Longest host string / map key (in characters).
MaxLen == 1
\* Most keys an os_map / arch_map holds.
MaxKeys == 2
\* Most entries the instances directory lists.
MaxEntries == 2

\* ------------------------------------------------------------- Python values
\* A str whose case matters is a sequence of characters; Chars is the alphabet.
Chars == {"a", "A"}

Strings == UNION {[1..n -> Chars] : n \in 0..MaxLen}

\* str.lower() on one character
LowerChar(c) == IF c = "A" THEN "a" ELSE c

\* str.lower()
Lower(s) == [i \in 1..Len(s) |-> LowerChar(s[i])]

PyNone == [kind |-> "none"]

PyStr(s) == [kind |-> "str", s |-> s]

PyDict(m) == [kind |-> "dict", map |-> m]

Raise(exc) == [kind |-> "raise", exc |-> exc]

Return(v) == [kind |-> "return", value |-> v]

IsRaise(v) == v.kind = "raise"

\* obj.get(key, default): an AttributeError on anything that is not a dict
\* (None, a str), the value under key when present, the default otherwise.
PyGet(obj, key, default) ==
    IF obj.kind # "dict" THEN Raise("AttributeError")
    ELSE IF key \in DOMAIN obj.map THEN obj.map[key]
    ELSE default

\* ------------------------------------------------------- configuration inputs
\* Normalised labels a map can hold.
Labels == {"lin", "mac"}

\* os_map / arch_map: at most MaxKeys raw keys, each mapped to a label.
Maps == UNION {[K -> {PyStr(l) : l \in Labels}] :
                 K \in {S \in SUBSET Strings : Cardinality(S) <= MaxKeys}}

\* What may sit under system.os_map / system.arch_map: a map, null, or nothing.
MapSlots == {PyDict(m) : m \in Maps} \cup {PyNone, [kind |-> "absent"]}

\* The `system` object built from the two slots (an absent slot is no key).
SystemOf(o, a) ==
    LET keys == {k \in {"os_map", "arch_map"} :
                   (IF k = "os_map" THEN o ELSE a).kind # "absent"}
    IN PyDict([k \in keys |-> IF k = "os_map" THEN o ELSE a])

\* Configuration documents: with a system object, with system null, without
\* the system key.
Documents ==
    {PyDict([k \in {"system"} |-> SystemOf(o, a)]) : o \in MapSlots, a \in MapSlots}
    \cup {PyDict([k \in {"system"} |-> PyNone]), PyDict([k \in {} |-> PyNone])}

\* What a caller can hand in: a document, or a path that cannot be loaded.
ConfigSources == Documents \cup {[kind |-> "path", loads |-> "FileNotFoundError"],
                                 [kind |-> "path", loads |-> "JSONDecodeError"]}

\* utils.load.load_json_config: a dict is returned as it is, a path is read
\* and parsed (its failure raised).
load_json_config(src) ==
    IF src.kind = "dict" THEN src ELSE Raise(src.loads)

\* ---------------------------------------------------------------- detect.py
detect_os_nolower(src, platform_system) ==
    LET m4b_config == load_json_config(src) IN
    IF IsRaise(m4b_config) THEN m4b_config
    ELSE LET system == PyGet(m4b_config, "system", PyNone) IN
    IF IsRaise(system) THEN system
    ELSE LET os_map == PyGet(system, "os_map", PyNone) IN
    IF IsRaise(os_map) THEN os_map
    ELSE LET os_type == PyGet(os_map, platform_system, PyStr("unknown")) IN
    IF IsRaise(os_type) THEN os_type
    ELSE Return([os_type |-> os_type])

detect_os_swallow(src, platform_system) ==
    LET m4b_config == load_json_config(src) IN
    IF IsRaise(m4b_config) THEN m4b_config
    ELSE LET system == PyGet(m4b_config, "system", PyDict([k \in {} |-> PyNone])) IN
    IF IsRaise(system) THEN Return([os_type |-> PyStr("unknown")])
    ELSE LET os_map == PyGet(system, "os_map", PyDict([k \in {} |-> PyNone])) IN
    IF IsRaise(os_map) THEN Return([os_type |-> PyStr("unknown")])
    ELSE LET os_type == PyGet(os_map, Lower(platform_system), PyStr("unknown")) IN
    IF IsRaise(os_type) THEN Return([os_type |-> PyStr("unknown")])
    ELSE Return([os_type |-> os_type])

\* detect_os: the result returned, or the exception re-raised by the except
\* clause (logged first, then `raise`).
detect_os(src, platform_system) ==
    LET m4b_config == load_json_config(src) IN
    IF IsRaise(m4b_config) THEN m4b_config
    ELSE LET system == PyGet(m4b_config, "system", PyNone) IN
    IF IsRaise(system) THEN system
    ELSE LET os_map == PyGet(system, "os_map", PyNone) IN
    IF IsRaise(os_map) THEN os_map
    ELSE LET os_type == PyGet(os_map, Lower(platform_system), PyStr("unknown")) IN
    IF IsRaise(os_type) THEN os_type
    ELSE Return([os_type |-> os_type])

detect_architecture_rawarch(src, platform_machine) ==
    LET m4b_config == load_json_config(src) IN
    IF IsRaise(m4b_config) THEN m4b_config
    ELSE LET system == PyGet(m4b_config, "system", PyNone) IN
    IF IsRaise(system) THEN system
    ELSE LET arch_map == PyGet(system, "arch_map", PyNone) IN
    IF IsRaise(arch_map) THEN arch_map
    ELSE LET arch == Lower(platform_machine)
             dkarch == PyGet(arch_map, arch, PyStr("unknown")) IN
    IF IsRaise(dkarch) THEN dkarch
    ELSE Return([arch |-> platform_machine, dkarch |-> dkarch])

\* detect_architecture: as detect_os, over arch_map, returning the lower-cased
\* raw machine string beside the mapped label.
detect_architecture(src, platform_machine) ==
    LET m4b_config == load_json_config(src) IN
    IF IsRaise(m4b_config) THEN m4b_config
    ELSE LET system == PyGet(m4b_config, "system", PyNone) IN
    IF IsRaise(system) THEN system
    ELSE LET arch_map == PyGet(system, "arch_map", PyNone) IN
    IF IsRaise(arch_map) THEN arch_map
    ELSE LET arch == Lower(platform_machine)
             dkarch == PyGet(arch_map, arch, PyStr("unknown")) IN
    IF IsRaise(dkarch) THEN dkarch
    ELSE Return([arch |-> arch, dkarch |-> dkarch])

\* ------------------------------------------------------------------- state
VARIABLES
    m4b_config_path_or_dict,  \* the detector's argument
    detect_call,              \* the detector call made: function, host string, outcome
    entry,                    \* the launcher function the run enters
    skip_arg,                 \* --skip-questions / the skip_questions argument
    instances_dir,            \* m4b_proxy_instances on disk: kind and listing
    pc,                       \* where the launcher is
    ss,                       \* start_stack's frame: instance_name, skip_questions, caller
    mp,                       \* start_multi_proxy_instances' frame: skip_questions, caller
    idx,                      \* start_multi_proxy_instances' position in the listing
    user_config,              \* main's user_config once loaded
    events                    \* what the run has done so far, in order

dvars == <<m4b_config_path_or_dict, detect_call>>

lvars == <<entry, skip_arg, instances_dir, pc, ss, mp, idx, user_config, events>>

vars == <<m4b_config_path_or_dict, detect_call, entry, skip_arg, instances_dir,
          pc, ss, mp, idx, user_config, events>>

NoCall == [fn |-> "none"]

NoFrame == [instance_name |-> "", skip_questions |-> FALSE, caller |-> "none"]

NoMulti == [skip_questions |-> FALSE, caller |-> "none"]

NoDir == [kind |-> "absent", listing |-> <<>>]

\* The launcher at rest (the detector's specification leaves it there).
LauncherIdle ==
    /\ entry = "none"
    /\ skip_arg = FALSE
    /\ instances_dir = NoDir
    /\ pc = "idle"
    /\ ss = NoFrame
    /\ mp = NoMulti
    /\ idx = 0
    /\ user_config = PyNone
    /\ events = <<>>

\* ------------------------------------------------------------ the launcher
PyBool(b) == [kind |-> "bool", b |-> b]

\* obj[key]: a KeyError when a dict lacks the key, a TypeError on None.
PySubscript(obj, key) ==
    IF obj.kind # "dict" THEN Raise("TypeError")
    ELSE IF key \in DOMAIN obj.map THEN obj.map[key]
    ELSE Raise("KeyError")

\* bool(v), as `if v:` takes it
PyTruthy(v) ==
    CASE v.kind = "bool" -> v.b
      [] v.kind = "none" -> FALSE
      [] v.kind = "dict" -> DOMAIN v.map # {}
      [] OTHER -> TRUE

EmptyDict == PyDict([k \in {} |-> PyNone])

Unloadable == {[kind |-> "path", loads |-> "FileNotFoundError"],
               [kind |-> "path", loads |-> "JSONDecodeError"]}

\* The m4b configuration main may find: without `project`, with an empty or a
\* named project, with project null; or a file that does not load.
M4bConfigs ==
    {EmptyDict,
     PyDict([k \in {"project"} |-> EmptyDict]),
     PyDict([k \in {"project"} |->
               PyDict([j \in {"compose_project_name"} |-> PyStr("custom")])]),
     PyDict([k \in {"project"} |-> PyNone])} \cup Unloadable

\* The user configuration main may find: without `proxies`, with proxies null,
\* with proxies lacking `enabled`, with the flag true or false; or a file that
\* does not load.
UserConfigs ==
    {EmptyDict,
     PyDict([k \in {"proxies"} |-> PyNone]),
     PyDict([k \in {"proxies"} |-> EmptyDict])}
    \cup {PyDict([k \in {"proxies"} |-> PyDict([j \in {"enabled"} |-> PyBool(b)])]) :
            b \in BOOLEAN}
    \cup Unloadable

\* An entry of the instances directory: a regular file, or a directory whose
\* docker-compose.yaml is a file, missing or itself a directory and whose .env
\* is a file or missing.
EntryShapes ==
    {[kind |-> "file", compose |-> "absent", env |-> "absent"]}
    \cup {[kind |-> "dir", compose |-> c, env |-> e] :
            c \in {"file", "absent", "dir"}, e \in {"file", "absent"}}

\* os.listdir(instances_dir), in the order it lists.
Listings == UNION {[1..n -> EntryShapes] : n \in 0..MaxEntries}

\* The name of the i-th entry listed.
InstanceName(i) == "proxy" \o ToString(i)

\* m4b_proxy_instances: missing, a regular file, or a directory.
InstancesDirs ==
    {NoDir, [kind |-> "file", listing |-> <<>>]}
    \cup {[kind |-> "dir", listing |-> l] : l \in Listings}

\* os.path.isfile(os.path.join(instance_dir, name))
IsFile(e, which) == e.kind = "dir" /\ e[which] = "file"

IsLaunchable_compose_only(e) == IsFile(e, "compose")

\* the test of the loop body: both files are there
IsLaunchable(e) == IsFile(e, "compose") /\ IsFile(e, "env")

Ev(e, i) == [ev |-> e, inst |-> i]

\* main's parameters, and the keyword arguments __main__ calls it with
MainParams == {"app_config_path", "m4b_config_path", "user_config_path"}

CliKwargs == {"app_config_path", "m4b_config_path", "user_config_path", "skip_questions"}

Init ==
    /\ m4b_config_path_or_dict = PyNone
    /\ detect_call = NoCall
    /\ entry \in {"cli", "main", "multi", "stack"}
    /\ skip_arg \in (IF entry = "main" THEN {FALSE} ELSE BOOLEAN)
    /\ instances_dir \in (IF entry = "stack" THEN {NoDir} ELSE InstancesDirs)
    /\ pc = (CASE entry = "cli" -> "cli_start"
               [] entry = "main" -> "main_start"
               [] entry = "multi" -> "mp_start"
               [] entry = "stack" -> "ss_start")
    /\ ss = (IF entry = "stack"
             THEN [instance_name |-> "money4band", skip_questions |-> skip_arg,
                   caller |-> "top"]
             ELSE NoFrame)
    /\ mp = (IF entry = "multi"
             THEN [skip_questions |-> skip_arg, caller |-> "top"]
             ELSE NoMulti)
    /\ idx = 0
    /\ user_config = PyNone
    /\ events = <<>>

\* What follows main's return: under __main__, the completion line of the log.
AfterMain == IF entry = "cli" THEN <<Ev("cli_log_completed", "")>> ELSE <<>>

\* __main__: the arguments are parsed, logging is set up and main is called
\* with four keyword arguments; a keyword main does not take is a TypeError,
\* logged by the last except clause and raised again.
CliRun ==
    /\ pc = "cli_start"
    /\ IF CliKwargs \subseteq MainParams
       THEN /\ pc' = "main_start"
            /\ events' = events \o <<Ev("cli_log_start", "")>>
       ELSE /\ pc' = "cli_raise"
            /\ events' = events \o <<Ev("cli_log_start", ""), Ev("cli_log_error", "TypeError")>>
    /\ UNCHANGED <<entry, skip_arg, instances_dir, ss, mp, idx, user_config>>
    /\ UNCHANGED dvars

\* main up to its call of start_stack: both configurations are loaded and the
\* instance name read; any exception ends main in one of its except clauses.
MainStart ==
    /\ pc = "main_start"
    /\ \E m \in M4bConfigs, u \in UserConfigs :
         LET m4b_config == load_json_config(m)
             loaded_user == load_json_config(u)
             project == PyGet(m4b_config, "project", EmptyDict)
             base_instance_name ==
                 IF IsRaise(project) THEN project
                 ELSE PyGet(project, "compose_project_name", PyStr("money4band"))
         IN
         IF IsRaise(m4b_config)
         THEN /\ events' = events \o <<Ev("main_error", m4b_config.exc)>> \o AfterMain
              /\ pc' = "main_return"
              /\ UNCHANGED <<ss, user_config>>
         ELSE IF IsRaise(loaded_user)
         THEN /\ events' = events \o <<Ev("loaded_m4b", ""),
                                       Ev("main_error", loaded_user.exc)>> \o AfterMain
              /\ pc' = "main_return"
              /\ UNCHANGED <<ss, user_config>>
         ELSE IF IsRaise(base_instance_name)
         THEN /\ events' = events \o <<Ev("loaded_m4b", ""), Ev("loaded_user", ""),
                                       Ev("main_error", base_instance_name.exc)>>
                                  \o AfterMain
              /\ pc' = "main_return"
              /\ user_config' = loaded_user
              /\ UNCHANGED ss
         ELSE /\ events' = events \o <<Ev("loaded_m4b", ""), Ev("loaded_user", "")>>
              /\ user_config' = loaded_user
              /\ ss' = [instance_name |-> base_instance_name.s,
                        skip_questions |-> FALSE, caller |-> "main"]
              /\ pc' = "ss_start"
    /\ UNCHANGED <<entry, skip_arg, instances_dir, mp, idx>>
    /\ UNCHANGED dvars

\* ------------------------------------------------------------- start_stack
\* The answers ask_question_yn can give, and its failure (stdin closed).
PromptOutcomes == {"yes", "no", "raise"}

\* What subprocess.run(..., check=True) can do: exit 0, exit non-zero
\* (CalledProcessError), or fail to run at all (docker missing).
ComposeOutcomes == {"ok", "CalledProcessError", "Exception"}

\* generate_dashboard_urls returns or raises.
DashboardOutcomes == {"ok", "raise"}

StackConfirm_ignores_answer ==
    /\ pc = "ss_start"
    /\ IF ss.skip_questions
       THEN /\ events' = events \o <<Ev("start_stack", ss.instance_name)>>
            /\ pc' = "ss_up"
       ELSE \E answer \in PromptOutcomes :
              /\ events' = events \o <<Ev("start_stack", ss.instance_name),
                                       Ev("prompt_" \o answer, ss.instance_name)>>
              /\ pc' = IF answer = "raise" THEN "ss_raise" ELSE "ss_up"
    /\ UNCHANGED <<entry, skip_arg, instances_dir, ss, mp, idx, user_config>>
    /\ UNCHANGED dvars

\* start_stack's entry: the call is logged; unless skip_questions, the
\* operator is asked, outside any try: a refusal cancels, an exception of the
\* prompt leaves start_stack.
StackConfirm ==
    /\ pc = "ss_start"
    /\ IF ss.skip_questions
       THEN /\ events' = events \o <<Ev("start_stack", ss.instance_name)>>
            /\ pc' = "ss_up"
       ELSE \E answer \in PromptOutcomes :
              CASE answer = "yes" ->
                     /\ events' = events \o <<Ev("start_stack", ss.instance_name),
                                              Ev("prompt_yes", ss.instance_name)>>
                     /\ pc' = "ss_up"
                [] answer = "no" ->
                     /\ events' = events \o <<Ev("start_stack", ss.instance_name),
                                              Ev("prompt_no", ss.instance_name),
                                              Ev("print_canceled", ss.instance_name)>>
                     /\ pc' = "ss_return"
                [] answer = "raise" ->
                     /\ events' = events \o <<Ev("start_stack", ss.instance_name),
                                              Ev("prompt_raise", ss.instance_name)>>
                     /\ pc' = "ss_raise"
    /\ UNCHANGED <<entry, skip_arg, instances_dir, ss, mp, idx, user_config>>
    /\ UNCHANGED dvars

StackComposeUp_no_catch_all ==
    /\ pc = "ss_up"
    /\ \E out \in ComposeOutcomes :
         CASE out = "ok" ->
                /\ events' = events \o <<Ev("compose_up_ok", ss.instance_name),
                                         Ev("print_success", ss.instance_name)>>
                /\ pc' = "ss_dash"
           [] out = "CalledProcessError" ->
                /\ events' = events \o <<Ev("compose_up_failed", ss.instance_name),
                                         Ev("print_error", ss.instance_name),
                                         Ev("log_error", ss.instance_name)>>
                /\ pc' = "ss_return"
           [] out = "Exception" ->
                /\ events' = events \o <<Ev("compose_up_exception", ss.instance_name)>>
                /\ pc' = "ss_raise"
    /\ UNCHANGED <<entry, skip_arg, instances_dir, ss, mp, idx, user_config>>
    /\ UNCHANGED dvars

\* docker compose up, inside the try: success is printed and the output
\* logged; a non-zero exit or any other exception is printed, logged and
\* swallowed.
StackComposeUp ==
    /\ pc = "ss_up"
    /\ \E out \in ComposeOutcomes :
         CASE out = "ok" ->
                /\ events' = events \o <<Ev("compose_up_ok", ss.instance_name),
                                         Ev("print_success", ss.instance_name)>>
                /\ pc' = "ss_dash"
           [] out = "CalledProcessError" ->
                /\ events' = events \o <<Ev("compose_up_failed", ss.instance_name),
                                         Ev("print_error", ss.instance_name),
                                         Ev("log_error", ss.instance_name)>>
                /\ pc' = "ss_return"
           [] out = "Exception" ->
                /\ events' = events \o <<Ev("compose_up_exception", ss.instance_name),
                                         Ev("print_unexpected", ss.instance_name),
                                         Ev("log_error", ss.instance_name)>>
                /\ pc' = "ss_return"
    /\ UNCHANGED <<entry, skip_arg, instances_dir, ss, mp, idx, user_config>>
    /\ UNCHANGED dvars

\* generate_dashboard_urls, still inside the try, after the success message:
\* the hint is printed when it returns; its exception is printed, logged and
\* swallowed by the catch-all clause.
StackDashboard ==
    /\ pc = "ss_dash"
    /\ \E out \in DashboardOutcomes :
         CASE out = "ok" ->
                /\ events' = events \o <<Ev("dashboard_ok", ss.instance_name),
                                         Ev("print_hint", ss.instance_name)>>
           [] out = "raise" ->
                /\ events' = events \o <<Ev("dashboard_raise", ss.instance_name),
                                         Ev("print_unexpected", ss.instance_name),
                                         Ev("log_error", ss.instance_name)>>
    /\ pc' = "ss_return"
    /\ UNCHANGED <<entry, skip_arg, instances_dir, ss, mp, idx, user_config>>
    /\ UNCHANGED dvars

\* --------------------------------------------- start_multi_proxy_instances
MultiEnter_no_isdir ==
    /\ pc = "mp_start"
    /\ IF instances_dir.kind = "dir"
       THEN /\ events' = events \o <<Ev("start_multi_proxy_instances", ""),
                                     Ev("multi_starting", "")>>
            /\ idx' = 1
            /\ pc' = "mp_loop"
       ELSE /\ events' = events \o <<Ev("start_multi_proxy_instances", "")>>
            /\ idx' = idx
            /\ pc' = "mp_raise"
    /\ UNCHANGED <<entry, skip_arg, instances_dir, ss, mp, user_config>>
    /\ UNCHANGED dvars

\* start_multi_proxy_instances' entry: a directory is announced and listed;
\* anything else is a warning in the log and the end of the function.
MultiEnter ==
    /\ pc = "mp_start"
    /\ IF instances_dir.kind = "dir"
       THEN /\ events' = events \o <<Ev("start_multi_proxy_instances", ""),
                                     Ev("multi_starting", "")>>
            /\ idx' = 1
            /\ pc' = "mp_loop"
       ELSE /\ events' = events \o <<Ev("start_multi_proxy_instances", ""),
                                     Ev("multi_warning", "")>>
            /\ idx' = idx
            /\ pc' = "mp_return"
    /\ UNCHANGED <<entry, skip_arg, instances_dir, ss, mp, user_config>>
    /\ UNCHANGED dvars

\* One turn of the loop over the listing: an entry with both files has
\* start_stack called on it, any other entry is passed over; after the last
\* entry the closing message is printed and the function returns.
MultiIter ==
    /\ pc = "mp_loop"
    /\ IF idx > Len(instances_dir.listing)
       THEN /\ events' = events \o <<Ev("multi_done", "")>>
            /\ pc' = "mp_return"
            /\ UNCHANGED <<ss, idx>>
       ELSE IF IsLaunchable(instances_dir.listing[idx])
       THEN /\ ss' = [instance_name |-> InstanceName(idx),
                      skip_questions |-> mp.skip_questions, caller |-> "multi"]
            /\ pc' = "ss_start"
            /\ UNCHANGED <<events, idx>>
       ELSE /\ idx' = idx + 1
            /\ UNCHANGED <<events, ss, pc>>
    /\ UNCHANGED <<entry, skip_arg, instances_dir, mp, user_config>>
    /\ UNCHANGED dvars

MultiAfterStack_propagates ==
    /\ pc \in {"ss_return", "ss_raise"}
    /\ ss.caller = "multi"
    /\ IF pc = "ss_raise"
       THEN /\ pc' = "mp_raise"
            /\ idx' = idx
       ELSE /\ pc' = "mp_loop"
            /\ idx' = idx + 1
    /\ ss' = NoFrame
    /\ UNCHANGED <<entry, skip_arg, instances_dir, mp, user_config, events>>
    /\ UNCHANGED dvars

\* start_stack is back in the loop: an exception it raised is logged by the
\* except clause; either way the loop goes on with the next entry.
MultiAfterStack ==
    /\ pc \in {"ss_return", "ss_raise"}
    /\ ss.caller = "multi"
    /\ events' = IF pc = "ss_raise"
                 THEN events \o <<Ev("multi_log_error", ss.instance_name)>>
                 ELSE events
    /\ idx' = idx + 1
    /\ pc' = "mp_loop"
    /\ ss' = NoFrame
    /\ UNCHANGED <<entry, skip_arg, instances_dir, mp, user_config>>
    /\ UNCHANGED dvars

\* -------------------------------------------------------------------- main
MainAfterStack_ignores_flag ==
    /\ pc \in {"ss_return", "ss_raise"}
    /\ ss.caller = "main"
    /\ IF pc = "ss_raise"
       THEN /\ events' = events \o <<Ev("main_error", "Exception")>> \o AfterMain
            /\ pc' = "main_return"
            /\ mp' = mp
       ELSE /\ mp' = [skip_questions |-> TRUE, caller |-> "main"]
            /\ pc' = "mp_start"
            /\ events' = events
    /\ ss' = NoFrame
    /\ UNCHANGED <<entry, skip_arg, instances_dir, idx, user_config>>
    /\ UNCHANGED dvars

\* The primary start_stack is back in main: its exception ends main in the
\* catch-all clause; otherwise user_config['proxies'].get('enabled', False)
\* decides whether start_multi_proxy_instances(skip_questions=True) is called.
MainAfterStack ==
    /\ pc \in {"ss_return", "ss_raise"}
    /\ ss.caller = "main"
    /\ LET proxies == PySubscript(user_config, "proxies")
           enabled == IF IsRaise(proxies) THEN proxies
                      ELSE PyGet(proxies, "enabled", PyBool(FALSE))
       IN
       IF pc = "ss_raise"
       THEN /\ events' = events \o <<Ev("main_error", "Exception")>> \o AfterMain
            /\ pc' = "main_return"
            /\ mp' = mp
       ELSE IF IsRaise(enabled)
       THEN /\ events' = events \o <<Ev("main_error", enabled.exc)>> \o AfterMain
            /\ pc' = "main_return"
            /\ mp' = mp
       ELSE IF PyTruthy(enabled)
       THEN /\ mp' = [skip_questions |-> TRUE, caller |-> "main"]
            /\ pc' = "mp_start"
            /\ events' = events
       ELSE /\ events' = events \o AfterMain
            /\ pc' = "main_return"
            /\ mp' = mp
    /\ ss' = NoFrame
    /\ UNCHANGED <<entry, skip_arg, instances_dir, idx, user_config>>
    /\ UNCHANGED dvars

\* start_multi_proxy_instances is back in main, which returns (an exception
\* would end in the catch-all clause first).
MainAfterMulti ==
    /\ pc \in {"mp_return", "mp_raise"}
    /\ mp.caller = "main"
    /\ events' = (IF pc = "mp_raise"
                  THEN events \o <<Ev("main_error", "Exception")>>
                  ELSE events) \o AfterMain
    /\ pc' = "main_return"
    /\ mp' = NoMulti
    /\ UNCHANGED <<entry, skip_arg, instances_dir, ss, idx, user_config>>
    /\ UNCHANGED dvars

Next ==
    \/ CliRun
    \/ MainStart
    \/ MainAfterStack
    \/ MainAfterMulti
    \/ StackConfirm
    \/ StackComposeUp
    \/ StackDashboard
    \/ MultiEnter
    \/ MultiIter
    \/ MultiAfterStack

Spec == Init /\ [][Next]_vars

\* ------------------------------------------------------ reading the events
Has(seq, name) == \E i \in DOMAIN seq : seq[i].ev = name

CountIn(seq, names) == Cardinality({i \in DOMAIN seq : seq[i].ev \in names})

\* Index of the last event named name, 0 when there is none.
LastIndex(name) ==
    LET I == {i \in DOMAIN events : events[i].ev = name}
    IN IF I = {} THEN 0 ELSE CHOOSE i \in I : \A j \in I : j <= i

\* start_stack is running or has just ended and its caller has not resumed.
InStack == pc \in {"ss_up", "ss_dash", "ss_return", "ss_raise"}

\* The events of the start_stack call in progress (or just ended).
CurSeg == SubSeq(events, LastIndex("start_stack"), Len(events))

\* The events since start_multi_proxy_instances was entered.
MultiSeg ==
    IF LastIndex("start_multi_proxy_instances") = 0 THEN <<>>
    ELSE SubSeq(events, LastIndex("start_multi_proxy_instances") + 1, Len(events))

\* The events before start_multi_proxy_instances was entered (all, if it was not).
PrimarySeg ==
    IF LastIndex("start_multi_proxy_instances") = 0 THEN events
    ELSE SubSeq(events, 1, LastIndex("start_multi_proxy_instances") - 1)

\* The instances start_stack was called on by the loop, in call order.
Attempts ==
    LET calls == SelectSeq(MultiSeg, LAMBDA e : e.ev = "start_stack")
    IN [i \in DOMAIN calls |-> calls[i].inst]

RECURSIVE LaunchableNames(_)
\* The names of the first n listed entries that hold both files, in listing order.
LaunchableNames(n) ==
    IF n = 0 THEN <<>>
    ELSE IF IsLaunchable(instances_dir.listing[n])
         THEN Append(LaunchableNames(n - 1), InstanceName(n))
         ELSE LaunchableNames(n - 1)

ComposeEvents == {"compose_up_ok", "compose_up_failed", "compose_up_exception"}

DashboardEvents == {"dashboard_ok", "dashboard_raise"}

FailurePrints == {"print_error", "print_unexpected"}

\* A launch that failed: the command, the dashboard generation or the prompt.
LaunchFailures == {"compose_up_failed", "compose_up_exception", "dashboard_raise",
                   "prompt_raise"}

\* ------------------------------------------------------------------ claims
\* C1: over an existing instances directory, every entry holding both files
\* gets exactly one start_stack call, in listing order, whatever happened to
\* the earlier launches; no compose command is run twice for an instance;
\* the loop is never left by an exception and the function returns normally.
C1_EveryInstanceOnceInOrder ==
    /\ pc # "mp_raise"
    /\ pc = "mp_loop" => Attempts = LaunchableNames(idx - 1)
    /\ (pc = "mp_return" /\ instances_dir.kind = "dir")
         => Attempts = LaunchableNames(Len(instances_dir.listing))
    /\ \A i \in 1..Len(instances_dir.listing) :
         Cardinality({j \in DOMAIN MultiSeg :
                        /\ MultiSeg[j].ev \in ComposeEvents
                        /\ MultiSeg[j].inst = InstanceName(i)}) <= 1

\* C1 witness: the loop has ended after two attempts, the first of which failed.
C1_Witness ==
    /\ pc = "mp_return"
    /\ Len(Attempts) >= 2
    /\ \E j \in DOMAIN MultiSeg : /\ MultiSeg[j].ev \in LaunchFailures
                                  /\ MultiSeg[j].inst = Attempts[1]

\* C2 (as claimed): start_stack never raises to its caller, whichever step
\* fails (prompt, command, dashboard generation), and a failed start is
\* reported on screen and in the log.
C2_NeverPropagates ==
    /\ pc # "ss_raise"
    /\ (pc = "ss_return" /\ \E i \in DOMAIN CurSeg : CurSeg[i].ev \in LaunchFailures)
         => (CountIn(CurSeg, FailurePrints) >= 1 /\ Has(CurSeg, "log_error"))

\* C2 (amended): start_stack raises only when the confirmation prompt raised,
\* before any command was run; a failure of the compose command (non-zero exit
\* or any exception) or of the dashboard generation is printed, logged and
\* followed by a normal return.
C2_PropagatesOnlyPrompt ==
    /\ pc = "ss_raise"
         => /\ events[Len(events)] = Ev("prompt_raise", ss.instance_name)
            /\ CountIn(CurSeg, ComposeEvents \cup DashboardEvents) = 0
            /\ ~ss.skip_questions
    /\ (InStack /\ CountIn(CurSeg, {"compose_up_failed", "compose_up_exception",
                                    "dashboard_raise"}) >= 1)
         => /\ pc = "ss_return"
            /\ CountIn(CurSeg, FailurePrints) = 1
            /\ CountIn(CurSeg, {"log_error"}) = 1

\* C2 witness: the compose command raised an unexpected exception and
\* start_stack has returned normally after reporting it.
C2_Witness ==
    /\ pc = "ss_return"
    /\ Has(CurSeg, "compose_up_exception")
    /\ Has(CurSeg, "print_unexpected")

\* The parts of C3 that hold as claimed: the command runs at most once and
\* only when skipped or confirmed; the dashboard generation runs once after a
\* successful command and never otherwise.
C3_Common ==
    InStack =>
      /\ CountIn(CurSeg, ComposeEvents) <= 1
      /\ CountIn(CurSeg, ComposeEvents) = 1
           => (ss.skip_questions \/ Has(CurSeg, "prompt_yes"))
      /\ (~ss.skip_questions /\ ~Has(CurSeg, "prompt_yes"))
           => CountIn(CurSeg, ComposeEvents) = 0
      /\ CountIn(CurSeg, DashboardEvents) <= 1
      /\ CountIn(CurSeg, DashboardEvents) = 1 => Has(CurSeg, "compose_up_ok")
      /\ (pc \in {"ss_return", "ss_raise"} /\ Has(CurSeg, "compose_up_ok"))
           => CountIn(CurSeg, DashboardEvents) = 1

\* C3 (as claimed): the above, and one start_stack call never reports both
\* success and failure.
C3_NeverBothReports ==
    /\ C3_Common
    /\ InStack => ~(Has(CurSeg, "print_success") /\ CountIn(CurSeg, FailurePrints) >= 1)

\* C3 (amended): the above, and one start_stack call reports both success and
\* failure exactly when the dashboard generation raised after the command
\* succeeded; in every other call it reports at most one of the two.
C3_BothOnlyOnDashboardFailure ==
    /\ C3_Common
    /\ InStack =>
         ((Has(CurSeg, "print_success") /\ CountIn(CurSeg, FailurePrints) >= 1)
            <=> Has(CurSeg, "dashboard_raise"))
    /\ InStack => CountIn(CurSeg, {"print_success"}) <= 1
    /\ InStack => CountIn(CurSeg, FailurePrints) <= 1

\* C3 witness: the command succeeded, the dashboard generation raised, and the
\* call has ended having printed success and then the failure.
C3_Witness ==
    /\ pc = "ss_return"
    /\ Has(CurSeg, "print_success")
    /\ Has(CurSeg, "dashboard_raise")
    /\ Has(CurSeg, "print_unexpected")

\* C4: when the loop has ended, the instances attempted are exactly the
\* entries holding both a docker-compose.yaml file and a .env file, each once;
\* an entry missing either (or not a directory) has left no trace: no call, no
\* command, no error.
C4_ExactlyTheCompleteEntries ==
    (pc = "mp_return" /\ instances_dir.kind = "dir") =>
      /\ {Attempts[i] : i \in DOMAIN Attempts}
           = {InstanceName(i) : i \in {j \in 1..Len(instances_dir.listing) :
                                         /\ instances_dir.listing[j].kind = "dir"
                                         /\ instances_dir.listing[j].compose = "file"
                                         /\ instances_dir.listing[j].env = "file"}}
      /\ Len(Attempts) = Cardinality({Attempts[i] : i \in DOMAIN Attempts})
      /\ \A j \in 1..Len(instances_dir.listing) :
           ~(/\ instances_dir.listing[j].kind = "dir"
             /\ instances_dir.listing[j].compose = "file"
             /\ instances_dir.listing[j].env = "file")
             => \A k \in DOMAIN events : events[k].inst # InstanceName(j)
      /\ ~Has(MultiSeg, "multi_warning")

\* C4 witness: two subdirectories, the second without its env file; the loop
\* has ended with exactly one attempt, on the first.
C4_Witness ==
    /\ pc = "mp_return"
    /\ instances_dir.kind = "dir"
    /\ Len(instances_dir.listing) = 2
    /\ instances_dir.listing[1] = [kind |-> "dir", compose |-> "file", env |-> "file"]
    /\ instances_dir.listing[2] = [kind |-> "dir", compose |-> "file", env |-> "absent"]
    /\ Attempts = <<InstanceName(1)>>

\* C5: entered with an instances_dir that is no directory,
\* start_multi_proxy_instances logs the warning, calls start_stack on nothing,
\* runs no command and returns normally.
C5_MissingDirNoLaunch ==
    (instances_dir.kind # "dir" /\ Has(events, "start_multi_proxy_instances")) =>
      /\ pc \in {"mp_return", "main_return"}
      /\ MultiSeg = <<Ev("multi_warning", "")>>
      /\ Attempts = <<>>

\* C5 witness: start_multi_proxy_instances has returned from a missing directory.
C5_Witness ==
    /\ entry = "multi"
    /\ instances_dir.kind = "absent"
    /\ pc = "mp_return"
    /\ Has(events, "multi_warning")

\* main loaded both configurations.
Loaded == Has(events, "loaded_m4b") /\ Has(events, "loaded_user")

\* user_config's proxies.enabled is there and true.
EnabledTrue ==
    /\ user_config.kind = "dict"
    /\ "proxies" \in DOMAIN user_config.map
    /\ user_config.map["proxies"].kind = "dict"
    /\ "enabled" \in DOMAIN user_config.map["proxies"].map
    /\ user_config.map["proxies"].map["enabled"] = PyBool(TRUE)

MultiCalled == Has(events, "start_multi_proxy_instances")

\* The parts of C9 that hold as claimed: nothing is launched before both
\* configurations are loaded; the primary start_stack is called at most once
\* and is over before the instances are looked at; the instances are started
\* with the confirmation skipped and only when the flag is true.
C9_Common ==
    entry = "main" =>
      /\ Has(events, "start_stack") => Loaded
      /\ CountIn(PrimarySeg, {"start_stack"}) <= 1
      /\ MultiCalled => (CountIn(PrimarySeg, {"start_stack"}) = 1 /\ EnabledTrue)
      /\ pc = "mp_start" => ss = NoFrame
      /\ mp.caller = "main" => mp.skip_questions
      /\ CountIn(MultiSeg, {"prompt_yes", "prompt_no", "prompt_raise"}) = 0
      /\ ~EnabledTrue => Attempts = <<>>

\* C9 (as claimed): the above; once both configurations are loaded the
\* primary start_stack is called exactly once; and
\* start_multi_proxy_instances is called if and only if the flag is true.
C9_MultiIffEnabled ==
    /\ C9_Common
    /\ (entry = "main" /\ pc = "main_return") =>
         /\ Loaded => CountIn(PrimarySeg, {"start_stack"}) = 1
         /\ MultiCalled <=> EnabledTrue

\* Reading the project name raised (project is null in the m4b configuration).
NameUnresolved ==
    \E i \in DOMAIN events :
      /\ events[i] = Ev("loaded_user", "")
      /\ i < Len(events)
      /\ events[i + 1] = Ev("main_error", "AttributeError")

\* C9 (amended): the above; once both configurations are loaded the primary
\* start_stack is called exactly once unless reading the project name raised;
\* and start_multi_proxy_instances is called if and only if the flag is true
\* and the primary start_stack was called and returned normally.
C9_MultiIffEnabledAndPrimaryReturned ==
    /\ C9_Common
    /\ (entry = "main" /\ pc = "main_return") =>
         /\ Loaded => (CountIn(PrimarySeg, {"start_stack"}) = 1 <=> ~NameUnresolved)
         /\ MultiCalled <=> (/\ EnabledTrue
                             /\ CountIn(PrimarySeg, {"start_stack"}) = 1
                             /\ ~Has(PrimarySeg, "prompt_raise"))

\* C9 witness: main has returned with the flag true, the primary start_stack
\* raised from its prompt, and no instance was looked at.
C9_Witness ==
    /\ entry = "main"
    /\ pc = "main_return"
    /\ EnabledTrue
    /\ Has(PrimarySeg, "prompt_raise")
    /\ ~MultiCalled

\* C10 (as claimed): run from the command line, the launcher enters main and
\* attempts the primary stack, and logs completion only if main ran.
C10_CliReachesMain ==
    /\ (entry = "cli" /\ pc # "cli_start")
         => (pc # "cli_raise" /\ ~Has(events, "cli_log_error"))
    /\ (entry = "cli" /\ pc \in {"main_return", "cli_raise"})
         => (Has(events, "start_stack") \/ Has(events, "main_error"))
    /\ Has(events, "cli_log_completed") => pc = "main_return"

\* ----------------------------------------------------------- the detector
DetectInit ==
    /\ m4b_config_path_or_dict \in ConfigSources
    /\ detect_call = NoCall
    /\ LauncherIdle

\* One call of detect_os on a host whose platform.system() is raw.
DetectOs ==
    /\ detect_call = NoCall
    /\ pc = "idle"
    /\ \E raw \in Strings :
         detect_call' = [fn |-> "detect_os", raw |-> raw,
                         out |-> detect_os(m4b_config_path_or_dict, raw)]
    /\ UNCHANGED m4b_config_path_or_dict
    /\ UNCHANGED lvars

\* One call of detect_architecture on a host whose platform.machine() is raw.
DetectArchitecture ==
    /\ detect_call = NoCall
    /\ pc = "idle"
    /\ \E raw \in Strings :
         detect_call' = [fn |-> "detect_architecture", raw |-> raw,
                         out |-> detect_architecture(m4b_config_path_or_dict, raw)]
    /\ UNCHANGED m4b_config_path_or_dict
    /\ UNCHANGED lvars

DetectNext == DetectOs \/ DetectArchitecture

SpecDetect == DetectInit /\ [][DetectNext]_vars

\* The map a detection reads, when the document can be traversed down to it.
Traversable(src, key) ==
    /\ src.kind = "dict"
    /\ "system" \in DOMAIN src.map
    /\ src.map["system"].kind = "dict"
    /\ key \in DOMAIN src.map["system"].map
    /\ src.map["system"].map[key].kind = "dict"

MapKeyOf(fn) == IF fn = "detect_os" THEN "os_map" ELSE "arch_map"

\* C6: on a document without the system key, or whose system.os_map /
\* system.arch_map cannot be traversed, detect_os and detect_architecture
\* raise; they return nothing, "unknown" included.
C6_MissingSystemRaises ==
    (/\ detect_call.fn # "none"
     /\ m4b_config_path_or_dict.kind = "dict"
     /\ ~Traversable(m4b_config_path_or_dict, MapKeyOf(detect_call.fn)))
      => /\ detect_call.out.kind = "raise"
         /\ detect_call.out.exc = "AttributeError"

\* C6 witness: detect_os was called on the document without the system key.
C6_Witness ==
    /\ detect_call.fn = "detect_os"
    /\ m4b_config_path_or_dict = PyDict([k \in {} |-> PyNone])
    /\ detect_call.out.kind = "raise"

\* C7 (as claimed): the label of a key equal to the raw OS string up to case
\* when os_map has one, "unknown" when it has none.
C7_CaseInsensitiveKey ==
    (/\ detect_call.fn = "detect_os"
     /\ Traversable(m4b_config_path_or_dict, "os_map"))
      => LET os_map == m4b_config_path_or_dict.map["system"].map["os_map"].map
             matches == {k \in DOMAIN os_map : Lower(k) = Lower(detect_call.raw)}
         IN /\ detect_call.out.kind = "return"
            /\ matches # {}
                 => detect_call.out.value.os_type \in {os_map[k] : k \in matches}
            /\ matches = {}
                 => detect_call.out.value.os_type = PyStr("unknown")

\* C7 (amended): the label os_map holds under the lower-cased raw OS string
\* when that exact string is a key, "unknown" otherwise (a key holding an
\* upper-case letter is never matched).
C7_LowerCasedKey ==
    (/\ detect_call.fn = "detect_os"
     /\ Traversable(m4b_config_path_or_dict, "os_map"))
      => LET os_map == m4b_config_path_or_dict.map["system"].map["os_map"].map
             key == Lower(detect_call.raw)
         IN detect_call.out =
              Return([os_type |-> IF key \in DOMAIN os_map THEN os_map[key]
                                  ELSE PyStr("unknown")])

\* C7 witness: the host reports an upper-case name whose lower-cased form is a
\* key, and the key's label is returned.
C7_Witness ==
    /\ detect_call.fn = "detect_os"
    /\ Traversable(m4b_config_path_or_dict, "os_map")
    /\ detect_call.raw # Lower(detect_call.raw)
    /\ Lower(detect_call.raw) \in DOMAIN m4b_config_path_or_dict.map["system"].map["os_map"].map
    /\ detect_call.out.kind = "return"
    /\ detect_call.out.value.os_type # PyStr("unknown")

\* C8: detect_architecture returns the lower-cased raw machine string as arch,
\* in arch_map or not, and as dkarch arch_map's label for that lower-cased
\* string, "unknown" when it has none.
C8_ArchLoweredDkarchMapped ==
    (/\ detect_call.fn = "detect_architecture"
     /\ Traversable(m4b_config_path_or_dict, "arch_map"))
      => LET arch_map == m4b_config_path_or_dict.map["system"].map["arch_map"].map
             key == Lower(detect_call.raw)
         IN /\ detect_call.out.kind = "return"
            /\ detect_call.out.value.arch = key
            /\ \A i \in DOMAIN detect_call.out.value.arch :
                 detect_call.out.value.arch[i] # "A"
            /\ key \in DOMAIN arch_map => detect_call.out.value.dkarch = arch_map[key]
            /\ key \notin DOMAIN arch_map
                 => detect_call.out.value.dkarch = PyStr("unknown")

\* C8 witness: an upper-case machine string absent from arch_map came back
\* lower-cased with dkarch "unknown".
C8_Witness ==
    /\ detect_call.fn = "detect_architecture"
    /\ Traversable(m4b_config_path_or_dict, "arch_map")
    /\ detect_call.raw # Lower(detect_call.raw)
    /\ Lower(detect_call.raw) \notin
         DOMAIN m4b_config_path_or_dict.map["system"].map["arch_map"].map
    /\ detect_call.out.kind = "return"
    /\ detect_call.out.value.dkarch = PyStr("unknown")
====
